---- MODULE Spec2Model ----
(***************************************************************************)
(* Model of the ts-typed-errors match engine.                              *)
(*                                                                         *)
(* One matcher is built by matchError / matchErrorOf / matchErrorAsync /   *)
(* matchErrorOfAsync (src/src/match/public.ts) on top of baseMatcher /     *)
(* baseAsyncMatcher (src/src/match/base.ts, the variant that keeps the     *)
(* tagHandlers table).  The state is the closure state of that call: the   *)
(* base matcher's `cases`, `tagHandlers`, `hasTagHandlers`, and the        *)
(* `transformedError` of the public wrapper.                               *)
(***************************************************************************)
EXTENDS Integers, Sequences, FiniteSets, TLC

(***************************************************************************)
(* Bounds                                                                  *)
(***************************************************************************)
\* number of registration / map calls made on one matcher
MaxOps == 3
\* largest value of the numeric payload field data.status
MaxStatus == 4

(***************************************************************************)
(* The universe of JavaScript values                                       *)
(***************************************************************************)
\* Classes of the universe.  A, B, C are produced by defineError (their
\* `tag` is an instance field, so the prototype has no tag).  T1 is a
\* hand-written Error subclass whose prototype carries tag "tX"
\* (class T1 extends Error { get tag() { return 'tX' } }).
Classes == {"Error", "A", "B", "C", "T1"}

Parent(c) == IF c = "Error" THEN "Object" ELSE "Error"

\* the prototype chain of class c, c.prototype first, Object.prototype last
RECURSIVE ProtoChain(_)
ProtoChain(c) == IF c = "Object" THEN <<"Object">> ELSE <<c>> \o ProtoChain(Parent(c))

InChain(chain, c) == \E i \in 1..Len(chain) : chain[i] = c

\* the classes found on the prototype chain of each class
Ancestors == [c \in Classes |-> {d \in Classes : InChain(ProtoChain(c), d)}]

NoTag == "<none>"

\* own `tag` property of c.prototype (NoTag: no such property)
OwnProtoTag(c) == IF c = "T1" THEN "tX" ELSE NoTag

\* c.prototype.tag, resolved along the prototype chain
RECURSIVE LookupProtoTag(_)
LookupProtoTag(chain) ==
  IF chain = <<>> THEN NoTag
  ELSE IF OwnProtoTag(Head(chain)) # NoTag THEN OwnProtoTag(Head(chain))
  ELSE LookupProtoTag(Tail(chain))

ProtoTags == [c \in Classes |-> LookupProtoTag(ProtoChain(c))]

ProtoTag(c) == ProtoTags[c]

\* a payload field value: undefined, or a number
Undefined == [def |-> FALSE, n |-> 0]
Num(n) == [def |-> TRUE, n |-> n]

\* a JavaScript value.  kind: typeof-like kind; cls: the class whose
\* prototype is the object's prototype ("Object" for a plain object);
\* tag: value of the `tag` property as seen by `'tag' in e` / e.tag
\* (own or inherited), NoTag when there is none; hasData / status: the
\* `data` property and its `status` field.
Value(kind, cls, tag, hasData, status) ==
  [kind |-> kind, cls |-> cls, tag |-> tag, hasData |-> hasData, status |-> status]

Null == Value("null", "", NoTag, FALSE, Undefined)

\* new V(message, data) for a defineError variant V: tag = name is an
\* instance field, data defaults to {}
NewVariant(v, status) == Value("object", v, v, TRUE, status)
\* new T() for a hand-written class: tag comes from the prototype
NewClass(c) == Value("object", c, ProtoTag(c), FALSE, Undefined)
\* a plain object literal { tag: t }
Plain(t) == Value("object", "Object", t, FALSE, Undefined)

Subjects ==
  { NewVariant("A", Num(1)), NewVariant("B", Undefined), NewVariant("C", Undefined),
    NewClass("T1"), Plain("tX") }

IsObject(e) == e.kind = "object"

\* e instanceof c
InstanceOf(e, c) == IsObject(e) /\ e.cls # "Object" /\ c \in Ancestors[e.cls]

(***************************************************************************)
(* Functions handed to the matcher                                         *)
(***************************************************************************)
\* guard / predicate functions (arrow functions: no prototype)
Guards == {"isErrorOfA"}

\* fn.prototype instanceof Error  (false for Error itself: the chain of
\* Error.prototype is Object.prototype only; false for arrow functions)
isCtor(fn) == fn \in Classes /\ InChain(Tail(ProtoChain(fn)), "Error")

\* isErrorOf(ctor, predicate)(e), with predicate e => e.data.status >= 2
isErrorOf(ctor, e) ==
  IF ~InstanceOf(e, ctor) THEN FALSE
  ELSE IF ~(e.status.def /\ e.status.n >= 2) THEN FALSE
  ELSE TRUE

\* predicates that throw when they are called: e => { throw new Error('boom') }
ThrowingGuards == {"boom"}

\* the value such a predicate throws
TestError == "boom"

\* the truthiness of fn(e) for a function stored as a case's test.
\* Error(e) called without `new` returns a fresh Error object: truthy.
CallFn(fn, e) ==
  CASE fn = "isErrorOfA" -> isErrorOf("A", e)
    [] fn = "Error" -> TRUE
    [] OTHER -> FALSE

(***************************************************************************)
(* baseMatcher / baseAsyncMatcher: registration                            *)
(***************************************************************************)
\* A CaseRunner { test, run }.  test: "call" (the function itself),
\* "instanceof" (e instanceof ctors[1]), "some" (ctors.some(...)),
\* "notsome" (!ctorArray.some(...)).  run: handler h called with the
\* subject (key = "") or with e.data?.[key] (select).
CaseRunner(kind, ctors, fn, h, key) ==
  [test |-> [kind |-> kind, ctors |-> ctors, fn |-> fn], run |-> [h |-> h, key |-> key]]

\* the base matcher right after baseMatcher() / baseAsyncMatcher()
\* tagHandlers is a Map<string, handler>, kept as a function over the tag
\* strings of the universe; 0 stands for "no entry"
TagKeys == {"A", "B", "C", "tX"}

baseMatcher == [cases |-> <<>>, tagHandlers |-> [k \in TagKeys |-> 0], hasTagHandlers |-> FALSE]

\* Map.prototype.set
MapSet(map, k, v) == [map EXCEPT ![k] = v]
\* Map.prototype.get; 0 stands for undefined
MapGet(map, k) == IF k \in DOMAIN map THEN map[k] ELSE 0

Push(bm, c) == [bm EXCEPT !.cases = Append(@, c)]

withGuard(bm, guard, h) == Push(bm, CaseRunner("call", <<>>, guard, h, ""))

withCtor(bm, ctor, h) ==
  LET tag == ProtoTag(ctor)
      indexed == IF tag # NoTag /\ tag # ""
                 THEN [bm EXCEPT !.tagHandlers = MapSet(@, tag, h), !.hasTagHandlers = TRUE]
                 ELSE bm
  IN Push(indexed, CaseRunner("instanceof", <<ctor>>, "", h, ""))

\* variant: the handler is handed the subject instead of the field
selectCtor_wholeSubject(bm, ctor, key, h) == Push(bm, CaseRunner("instanceof", <<ctor>>, "", h, ""))

selectCtor(bm, ctor, key, h) == Push(bm, CaseRunner("instanceof", <<ctor>>, "", h, key))

withAnyCtor(bm, ctors, h) == Push(bm, CaseRunner("some", ctors, "", h, ""))

\* variant: the negation is lost
withNotCtor_noNegation(bm, ctors, h) ==
  LET ctorArray == IF ctors.isArray THEN ctors.list ELSE <<ctors.list[1]>>
  IN Push(bm, CaseRunner("some", ctorArray, "", h, ""))

\* variant: only the first listed constructor is excluded
withNotCtor_firstOnly(bm, ctors, h) ==
  Push(bm, CaseRunner("notsome", <<ctors.list[1]>>, "", h, ""))

\* ctors: [isArray, list]; a single constructor is list = <<ctor>>, isArray = FALSE
withNotCtor(bm, ctors, h) ==
  LET ctorArray == IF ctors.isArray THEN ctors.list ELSE <<ctors.list[1]>>
  IN Push(bm, CaseRunner("notsome", ctorArray, "", h, ""))

when(bm, pred, h) == Push(bm, CaseRunner("call", <<>>, pred, h, ""))

\* api.with
apiWith(bm, ctorOrGuard, h) ==
  IF isCtor(ctorOrGuard) THEN withCtor(bm, ctorOrGuard, h) ELSE withGuard(bm, ctorOrGuard, h)

(***************************************************************************)
(* baseMatcher / baseAsyncMatcher: dispatch                                *)
(***************************************************************************)
\* c.test(e)
Test(c, e) ==
  CASE c.test.kind = "call" -> CallFn(c.test.fn, e)
    [] c.test.kind = "instanceof" -> InstanceOf(e, c.test.ctors[1])
    [] c.test.kind = "some" -> \E i \in 1..Len(c.test.ctors) : InstanceOf(e, c.test.ctors[i])
    [] c.test.kind = "notsome" -> ~(\E i \in 1..Len(c.test.ctors) : InstanceOf(e, c.test.ctors[i]))

\* what a handler is called with: the subject itself, or an extracted field
ArgSubject(e) == [whole |-> TRUE, subj |-> e, val |-> Undefined]
ArgValue(v) == [whole |-> FALSE, subj |-> Null, val |-> v]

\* (e as any).data?.[key]
DataGet(e, key) == IF IsObject(e) /\ e.hasData /\ key = "status" THEN e.status ELSE Undefined

\* the argument c.run(e) passes to the handler
RunArg(c, e) == IF c.run.key = "" THEN ArgSubject(e) ELSE ArgValue(DataGet(e, c.run.key))

\* one call made by a dispatch: ev = "test" (c.test of rule i), "run" (the
\* handler i), "fallback"; threw: the call ended by throwing
Ev(ev, i, arg) == [ev |-> ev, i |-> i, arg |-> arg, threw |-> FALSE]
EvThrew(ev, i, arg) == [ev |-> ev, i |-> i, arg |-> arg, threw |-> TRUE]

\* c.test(e) throws
TestThrows(c, e) == c.test.kind = "call" /\ c.test.fn \in ThrowingGuards

\* for (const c of cases) if (c.test(e)) return c.run(e);
\* variant: the loop does not return after running a handler; every
\* rule whose test passes runs
RECURSIVE Scan_keepsGoing(_, _, _)
Scan_keepsGoing(cases, e, i) ==
  IF i > Len(cases) THEN [hit |-> 0, threw |-> FALSE, log |-> <<>>]
  ELSE IF TestThrows(cases[i], e)
       THEN [hit |-> 0, threw |-> TRUE, log |-> <<EvThrew("test", i, ArgSubject(e))>>]
  ELSE LET rest == Scan_keepsGoing(cases, e, i + 1)
       IN IF Test(cases[i], e)
          THEN [hit |-> i, threw |-> FALSE,
                log |-> <<Ev("test", i, ArgSubject(e)), Ev("run", cases[i].run.h, RunArg(cases[i], e))>>
                        \o rest.log]
          ELSE [hit |-> rest.hit, threw |-> rest.threw,
                log |-> <<Ev("test", i, ArgSubject(e))>> \o rest.log]

\* hit: index of the case that ran (0: none), threw: a test threw and
\* ended the loop, log: the calls made
RECURSIVE Scan(_, _, _)
Scan(cases, e, i) ==
  IF i > Len(cases) THEN [hit |-> 0, threw |-> FALSE, log |-> <<>>]
  ELSE IF TestThrows(cases[i], e)
       THEN [hit |-> 0, threw |-> TRUE, log |-> <<EvThrew("test", i, ArgSubject(e))>>]
  ELSE IF Test(cases[i], e)
       THEN [hit |-> i, threw |-> FALSE,
             log |-> <<Ev("test", i, ArgSubject(e)), Ev("run", cases[i].run.h, RunArg(cases[i], e))>>]
       ELSE LET rest == Scan(cases, e, i + 1)
            IN [hit |-> rest.hit, threw |-> rest.threw,
                log |-> <<Ev("test", i, ArgSubject(e))>> \o rest.log]

\* the fast path: the handler found in tagHandlers, 0 when the path is
\* not taken or finds nothing
TagLookup(bm, e) ==
  IF bm.hasTagHandlers /\ e.kind \in {"object", "null"} /\ e.kind # "null" /\ e.tag # NoTag
  THEN MapGet(bm.tagHandlers, e.tag)
  ELSE 0

\* outcome of one dispatch: how it ended ("return" / "throw"), the handler
\* whose result is returned (0: the fallback) with its argument, the
\* calls made, in order
NonExhaustive == "Non-exhaustive matchErrorOf"

Outcome(how, by, arg, log) ==
  [how |-> how, by |-> by, arg |-> arg, log |-> log,
   error |-> IF how \in {"throw", "rejected"} THEN NonExhaustive ELSE ""]

\* a dispatch ended by a value thrown from a function it called
Thrown(how, err, e, log) == [Outcome(how, 0, ArgSubject(e), log) EXCEPT !.error = err]

\* otherwise(e, fallback)
otherwise(bm, e) ==
  LET handler == TagLookup(bm, e)
      s == Scan(bm.cases, e, 1)
  IN IF handler # 0
     THEN Outcome("return", handler, ArgSubject(e), <<Ev("run", handler, ArgSubject(e))>>)
     ELSE IF s.threw THEN Thrown("throw", TestError, e, s.log)
     ELSE IF s.hit # 0
     THEN Outcome("return", bm.cases[s.hit].run.h, RunArg(bm.cases[s.hit], e), s.log)
     ELSE Outcome("return", 0, ArgSubject(e), s.log \o <<Ev("fallback", 0, ArgSubject(e))>>)

\* variant: only the tag table is consulted, the cases are never scanned
runExhaustive_tagOnly(bm, e) ==
  LET handler == TagLookup(bm, e)
  IN IF handler # 0
     THEN Outcome("return", handler, ArgSubject(e), <<Ev("run", handler, ArgSubject(e))>>)
     ELSE Outcome("throw", 0, ArgSubject(e), <<>>)

\* runExhaustive(e)
runExhaustive(bm, e) ==
  LET handler == TagLookup(bm, e)
      s == Scan(bm.cases, e, 1)
  IN IF handler # 0
     THEN Outcome("return", handler, ArgSubject(e), <<Ev("run", handler, ArgSubject(e))>>)
     ELSE IF s.threw THEN Thrown("throw", TestError, e, s.log)
     ELSE IF s.hit # 0
     THEN Outcome("return", bm.cases[s.hit].run.h, RunArg(bm.cases[s.hit], e), s.log)
     ELSE Outcome("throw", 0, ArgSubject(e), s.log)

\* the matcher without the tag table: a pure first-match linear scan
linearOtherwise(cases, e) ==
  LET s == Scan(cases, e, 1)
  IN IF s.threw THEN Thrown("throw", TestError, e, s.log)
     ELSE IF s.hit # 0
     THEN Outcome("return", cases[s.hit].run.h, RunArg(cases[s.hit], e), s.log)
     ELSE Outcome("return", 0, ArgSubject(e), s.log \o <<Ev("fallback", 0, ArgSubject(e))>>)

linearRunExhaustive(cases, e) ==
  LET s == Scan(cases, e, 1)
  IN IF s.threw THEN Thrown("throw", TestError, e, s.log)
     ELSE IF s.hit # 0
     THEN Outcome("return", cases[s.hit].run.h, RunArg(cases[s.hit], e), s.log)
     ELSE Outcome("throw", 0, ArgSubject(e), s.log)

\* async otherwise(e, fallback): the promise the async function returns.
\* It is resolved with the promise of the handler that was called
\* ("pending" until that one settles).
asyncOtherwise(bm, e) ==
  LET handler == TagLookup(bm, e)
      s == Scan(bm.cases, e, 1)
  IN IF handler # 0
     THEN Outcome("pending", handler, ArgSubject(e), <<Ev("run", handler, ArgSubject(e))>>)
     ELSE IF s.threw THEN Thrown("rejected", TestError, e, s.log)
     ELSE IF s.hit # 0
     THEN Outcome("pending", bm.cases[s.hit].run.h, RunArg(bm.cases[s.hit], e), s.log)
     ELSE Outcome("pending", 0, ArgSubject(e), s.log \o <<Ev("fallback", 0, ArgSubject(e))>>)

\* async runExhaustive(e): a throw inside the async function rejects its promise
asyncRunExhaustive(bm, e) ==
  LET handler == TagLookup(bm, e)
      s == Scan(bm.cases, e, 1)
  IN IF handler # 0
     THEN Outcome("pending", handler, ArgSubject(e), <<Ev("run", handler, ArgSubject(e))>>)
     ELSE IF s.threw THEN Thrown("rejected", TestError, e, s.log)
     ELSE IF s.hit # 0
     THEN Outcome("pending", bm.cases[s.hit].run.h, RunArg(bm.cases[s.hit], e), s.log)
     ELSE Outcome("rejected", 0, ArgSubject(e), s.log)

(***************************************************************************)
(* The public matchers                                                     *)
(***************************************************************************)
Flavors == {"matchError", "matchErrorOf", "matchErrorAsync", "matchErrorOfAsync"}
IsAsync(f) == f \in {"matchErrorAsync", "matchErrorOfAsync"}
IsExhaustiveFlavor(f) == f \in {"matchErrorOf", "matchErrorOfAsync"}

\* the transform functions handed to map
Transforms == {"inc", "dbl"}

\* transform(e): e instanceof A ? new A(e.message, {...e.data, status: f(e.data.status)}) : e
\* with f = status + 1 (inc) or status * 2 (dbl)
ApplyTransform(t, e) ==
  IF ~InstanceOf(e, "A") THEN e
  ELSE CASE t = "inc" -> NewVariant("A", Num(e.status.n + 1))
         [] t = "dbl" -> NewVariant("A", Num(e.status.n * 2))

\* arguments of the registration calls
WithArgs == Classes
WithAnyArgs == {<<"A", "B">>}
WithNotArgs ==
  { [isArray |-> FALSE, list |-> <<"A">>],
    [isArray |-> TRUE, list |-> <<"A", "B">>] }
SelectArgs == {<<"A", "status">>}
WhenArgs == Guards

VARIABLES
  flavor,            \* which of the four builders made the matcher
  original,          \* the e the builder was called with
  transformedError,  \* the working subject
  m,                 \* the base matcher: cases, tagHandlers, hasTagHandlers
  maps,              \* the transforms map was called with, in call order
  regs,              \* the registration calls made, in call order
  calls,             \* tests / handlers called by the latest terminal call
  result,            \* what the latest terminal call returned
  peer,              \* a second matcher, made by a separate builder call
  wrapped,           \* one call of a function returned by wrap
  heap,              \* the objects a defineError constructor call works on
  chains,            \* the chain objects the matcher's methods have returned
  serial,            \* one serialize / deserialize call
  guardCall          \* one isAnyOf / isAllOf call

vars == <<flavor, original, transformedError, m, maps, regs, calls, result,
          peer, wrapped, heap, chains, serial, guardCall>>

\* chain objects, serialization and guard calls
rest == <<chains, serial, guardCall>>

\* the state outside the matcher
others == <<peer, wrapped, heap, rest>>

\* chain objects not followed, no serialization call, no guard call
NoChains == "none"
NotSerialized == "none"
NoGuardCall == "none"

RestIdle ==
  /\ chains = NoChains
  /\ serial = NotSerialized
  /\ guardCall = NoGuardCall

\* no second matcher, no wrap call, no constructor call
NoPeer == "none"
NotWrapped == "none"
NoHeap == "none"

NoResult == [state |-> "none", via |-> "", by |-> 0, arg |-> ArgSubject(Null), error |-> ""]

\* one registration call as the caller wrote it
Reg(op, fn, ctors, isArray, key) ==
  [op |-> op, fn |-> fn, ctors |-> ctors, isArray |-> isArray, key |-> key]

Init ==
  /\ flavor \in Flavors
  /\ original \in Subjects
  /\ transformedError = original
  /\ m = baseMatcher
  /\ maps = <<>>
  /\ regs = <<>>
  /\ calls = <<>>
  /\ result = NoResult
  /\ peer = NoPeer
  /\ wrapped = NotWrapped
  /\ heap = NoHeap
  /\ RestIdle

\* room for one more registration or map call
CanGrow == Len(m.cases) + Len(maps) < MaxOps

\* the handler passed to a registration call: a fresh function per call
NewHandler == Len(m.cases) + 1

\* a registration call: the base matcher changes, a new chain is returned
Registered(bm, reg) ==
  /\ m' = bm
  /\ regs' = Append(regs, reg)
  /\ calls' = <<>>
  /\ result' = NoResult
  /\ UNCHANGED <<flavor, original, transformedError, maps, others>>

With(ctorOrGuard) ==
  /\ CanGrow
  /\ Registered(apiWith(m, ctorOrGuard, NewHandler), Reg("with", ctorOrGuard, <<>>, FALSE, ""))

WithAny(ctors) ==
  /\ CanGrow
  /\ Registered(withAnyCtor(m, ctors, NewHandler), Reg("withAny", "", ctors, TRUE, ""))

WithNot(ctors) ==
  /\ CanGrow
  /\ Registered(withNotCtor(m, ctors, NewHandler), Reg("withNot", "", ctors.list, ctors.isArray, ""))

Select(ctor, key) ==
  /\ CanGrow
  /\ Registered(selectCtor(m, ctor, key, NewHandler), Reg("select", "", <<ctor>>, FALSE, key))

When(pred) ==
  /\ CanGrow
  /\ Registered(when(m, pred, NewHandler), Reg("when", pred, <<>>, FALSE, ""))

\* variant: the transform is applied to the original subject
Map_fromOriginal(transform) ==
  /\ CanGrow
  /\ ApplyTransform(transform, original).status.n <= MaxStatus
  /\ transformedError' = ApplyTransform(transform, original)
  /\ maps' = Append(maps, transform)
  /\ calls' = <<>>
  /\ result' = NoResult
  /\ UNCHANGED <<flavor, original, m, regs, others>>

\* variant: map keeps the transform for later and does not call it
Map_lazy(transform) ==
  /\ CanGrow
  /\ ApplyTransform(transform, transformedError).status.n <= MaxStatus
  /\ maps' = Append(maps, transform)
  /\ calls' = <<>>
  /\ result' = NoResult
  /\ UNCHANGED <<flavor, original, transformedError, m, regs, others>>

\* map(transform): transformedError = transform(transformedError)
Map(transform) ==
  /\ CanGrow
  /\ ApplyTransform(transform, transformedError).status.n <= MaxStatus
  /\ transformedError' = ApplyTransform(transform, transformedError)
  /\ maps' = Append(maps, transform)
  /\ calls' = <<>>
  /\ result' = NoResult
  /\ UNCHANGED <<flavor, original, m, regs, others>>

\* what the caller holds after a terminal call that ended as o
Returned(o, via) ==
  [state |-> CASE o.how = "return" -> "returned"
               [] o.how = "throw" -> "threw"
               [] OTHER -> o.how,
   via |-> via, by |-> o.by, arg |-> o.arg,
   error |-> o.error]

\* variant: the rules are dropped once they have been dispatched on
Terminal_consumes(o, via) ==
  /\ calls' = o.log
  /\ result' = Returned(o, via)
  /\ m' = baseMatcher
  /\ UNCHANGED <<flavor, original, transformedError, maps, regs, others>>

\* a terminal call: the dispatch log and what the caller gets; the closure
\* variables are read only
Terminal(o, via) ==
  /\ calls' = o.log
  /\ result' = Returned(o, via)
  /\ UNCHANGED <<flavor, original, transformedError, m, maps, regs, others>>

\* otherwise(handler)
Otherwise ==
  Terminal(IF IsAsync(flavor) THEN asyncOtherwise(m, transformedError)
           ELSE otherwise(m, transformedError), "otherwise")

\* exhaustive()
Exhaustive ==
  /\ IsExhaustiveFlavor(flavor)
  /\ Terminal(IF IsAsync(flavor) THEN asyncRunExhaustive(m, transformedError)
              ELSE runExhaustive(m, transformedError), "exhaustive")

\* the promise of the handler an async terminal call returned settles
Settle ==
  /\ result.state = "pending"
  /\ result' = [result EXCEPT !.state = "fulfilled"]
  /\ UNCHANGED <<flavor, original, transformedError, m, maps, regs, calls, others>>

Next ==
  \/ \E f \in WithArgs : With(f)
  \/ \E cs \in WithAnyArgs : WithAny(cs)
  \/ \E cs \in WithNotArgs : WithNot(cs)
  \/ \E a \in SelectArgs : Select(a[1], a[2])
  \/ \E p \in WhenArgs : When(p)
  \/ \E t \in Transforms : Map(t)
  \/ Otherwise
  \/ Exhaustive
  \/ Settle

Spec == Init /\ [][Next]_vars

TypeOK ==
  /\ flavor \in Flavors
  /\ Len(m.cases) + Len(maps) <= MaxOps
  /\ Len(regs) = Len(m.cases)
  /\ result.state \in {"none", "returned", "threw", "pending", "fulfilled", "rejected"}

(***************************************************************************)
(* Vocabulary of the properties                                            *)
(***************************************************************************)
\* a terminal call was the latest call on the matcher
Done == result.state # "none"

\* the rules whose test passes on the working subject
Matching == {i \in 1..Len(m.cases) : Test(m.cases[i], transformedError)}

\* the earliest-registered of them (0: none)
FirstMatch == IF Matching = {} THEN 0 ELSE CHOOSE i \in Matching : \A j \in Matching : i <= j

RunEvents == {k \in 1..Len(calls) : calls[k].ev = "run"}
FallbackEvents == {k \in 1..Len(calls) : calls[k].ev = "fallback"}
TestEvents == {k \in 1..Len(calls) : calls[k].ev = "test"}

\* the terminal call produced a value (possibly through a promise)
Succeeded == result.state \in {"returned", "pending", "fulfilled"}
\* the terminal call threw / its promise rejected with the non-exhaustive error
FailedLoudly ==
  /\ result.state = (IF IsAsync(flavor) THEN "rejected" ELSE "threw")
  /\ result.error = NonExhaustive

Variants == {"A", "B", "C"}

\* registration i is with(c, h)
IsWithFor(i, c) == i \in 1..Len(regs) /\ regs[i].op = "with" /\ regs[i].fn = c

\* the subject is an instance of none of the constructors of the list
InstanceOfNone(e, ctors) == \A k \in 1..Len(ctors) : ~InstanceOf(e, ctors[k])

\* tn(...t2(t1(e))...) for ts = <<t1, ..., tn>>
RECURSIVE Compose(_, _)
Compose(ts, e) == IF ts = <<>> THEN e ELSE Compose(Tail(ts), ApplyTransform(Head(ts), e))

(***************************************************************************)
(* C1 - first match wins                                                   *)
(***************************************************************************)
\* C1: when some rule's test passes on the final subject, the terminal call
\* runs the handler of the earliest-registered such rule and returns its
\* result; no other handler runs, the fallback does not run, and no test
\* of a later rule is evaluated.
C1_FirstMatchWins ==
  (Done /\ Matching # {}) =>
    /\ Succeeded
    /\ result.by = m.cases[FirstMatch].run.h
    /\ result.arg = RunArg(m.cases[FirstMatch], transformedError)
    /\ RunEvents # {}
    /\ \A k \in RunEvents : calls[k].i = m.cases[FirstMatch].run.h
    /\ FallbackEvents = {}
    /\ \A k \in TestEvents : calls[k].i <= FirstMatch

(***************************************************************************)
(* C2 - otherwise runs the fallback iff nothing matches                    *)
(***************************************************************************)
\* C2: otherwise(fallback) invokes the fallback iff no rule's test passes
\* on the final subject; then it is called exactly once, with the final
\* subject, and its result is what otherwise returns.
C2_FallbackIffNoMatch ==
  (Done /\ result.via = "otherwise") =>
    /\ (FallbackEvents # {}) <=> (Matching = {})
    /\ (FallbackEvents # {}) =>
         /\ Cardinality(FallbackEvents) = 1
         /\ \A k \in FallbackEvents : calls[k].arg = ArgSubject(transformedError)
         /\ RunEvents = {}
         /\ result.by = 0
         /\ result.arg = ArgSubject(transformedError)

(***************************************************************************)
(* C3 - exhaustive() fails loudly when nothing matches                     *)
(***************************************************************************)
\* C3: when no rule's test passes on the subject, the synchronous
\* exhaustive() throws the non-exhaustive Error and the asynchronous one
\* returns a promise rejected with it; it never yields a value.
C3_ExhaustiveFailsLoudly ==
  (Done /\ result.via = "exhaustive" /\ Matching = {}) => FailedLoudly

(***************************************************************************)
(* C4 - exhaustive coverage of three factory variants                      *)
(***************************************************************************)
\* the matcher holds exactly one `with` rule for each of A, B, C
ABCRules == Len(regs) = 3 /\ \A c \in Variants : \E i \in 1..3 : IsWithFor(i, c)

\* C4: with exactly one `with` rule per variant A, B, C in any order,
\* exhaustive() on an instance of one of them returns the result of the
\* rule registered for that variant and never raises non-exhaustive.
C4_ExhaustiveCoverage ==
  (Done /\ result.via = "exhaustive" /\ ABCRules
        /\ \E c \in Variants : InstanceOf(transformedError, c)) =>
    /\ Succeeded
    /\ \A i \in 1..3 : IsWithFor(i, transformedError.cls) =>
         /\ result.by = m.cases[i].run.h
         /\ result.arg = ArgSubject(transformedError)
         /\ \A k \in RunEvents : calls[k].i = m.cases[i].run.h

C4_Witness ==
  /\ ABCRules /\ IsWithFor(1, "B") /\ IsWithFor(2, "C") /\ IsWithFor(3, "A")
  /\ flavor = "matchErrorOfAsync"
  /\ result.via = "exhaustive" /\ result.state = "fulfilled"
  /\ InstanceOf(transformedError, "A") /\ result.by = 3

(***************************************************************************)
(* C5 - the tag table is order-equivalent to the linear scan               *)
(***************************************************************************)
\* what the pure linear scan over the same rules does with the same subject
LinearReference ==
  IF result.via = "otherwise" THEN linearOtherwise(m.cases, transformedError)
  ELSE linearRunExhaustive(m.cases, transformedError)

\* C5: the handler the matcher with the tag table selects, and the argument
\* it is called with, are those the first-match linear scan selects.
C5_OrderEquivalence ==
  Done =>
    /\ result.by = LinearReference.by
    /\ result.arg = LinearReference.arg
    /\ Succeeded <=> (LinearReference.how = "return")

(***************************************************************************)
(* C6 - withNot([A]) registered before with(A)                             *)
(***************************************************************************)
\* withNot([A], h1) is registration i and with(A, h2) a later registration j
NotThenWith(i, j, c) ==
  /\ i \in 1..Len(regs) /\ j \in 1..Len(regs) /\ i < j
  /\ regs[i].op = "withNot" /\ regs[i].ctors = <<c>>
  /\ IsWithFor(j, c)

\* C6 as stated: with withNot([A], h1) registered before with(A, h2), an
\* instance of A invokes h1 and does not invoke h2.
C6_NotRuleCatchesA ==
  \A i, j \in 1..Len(regs) :
    (Done /\ NotThenWith(i, j, "A") /\ InstanceOf(transformedError, "A")) =>
      /\ \E k \in RunEvents : calls[k].i = m.cases[i].run.h
      /\ \A k \in RunEvents : calls[k].i # m.cases[j].run.h

\* C6 amended: with withNot([A], h1) registered before with(A, h2), an
\* instance of A never invokes h1 (the withNot test fails on it); when
\* the two are the matcher's only rules it invokes h2 with the subject.
C6_NotRuleSkipsA ==
  \A i, j \in 1..Len(regs) :
    (Done /\ NotThenWith(i, j, "A") /\ InstanceOf(transformedError, "A")) =>
      /\ \A k \in RunEvents : calls[k].i # m.cases[i].run.h
      /\ result.by # m.cases[i].run.h
      /\ (Len(regs) = 2) =>
           /\ result.by = m.cases[j].run.h
           /\ result.arg = ArgSubject(transformedError)
           /\ \E k \in RunEvents : calls[k].i = m.cases[j].run.h

C6_Witness ==
  /\ Len(regs) = 2 /\ NotThenWith(1, 2, "A")
  /\ InstanceOf(transformedError, "A")
  /\ result.state = "returned" /\ result.by = 2

(***************************************************************************)
(* C7 - a leading withNot shadows everything after it                      *)
(***************************************************************************)
\* C7: if withNot(S, h) is the first rule, every subject that is an
\* instance of no constructor in S gets h, whatever is registered after.
C7_NotRuleShadows ==
  (Done /\ Len(regs) >= 1 /\ regs[1].op = "withNot"
        /\ InstanceOfNone(transformedError, regs[1].ctors)) =>
    /\ Succeeded
    /\ result.by = m.cases[1].run.h
    /\ result.arg = ArgSubject(transformedError)
    /\ \A k \in RunEvents : calls[k].i = m.cases[1].run.h
    /\ FallbackEvents = {}

(***************************************************************************)
(* C8 - negation correctness                                               *)
(***************************************************************************)
\* C8: the test of a withNot(ctors, h) rule passes exactly when the subject
\* is an instance of none of the constructors the caller listed (a single
\* constructor counting as a one-element list); as the only rule, h runs
\* for such subjects and the fallback (or the non-exhaustive error) is
\* what the others get.
C8_NegationCorrect ==
  \A i \in 1..Len(regs) :
    regs[i].op = "withNot" =>
      /\ Test(m.cases[i], transformedError) <=> InstanceOfNone(transformedError, regs[i].ctors)
      /\ (Done /\ Len(regs) = 1) =>
           IF InstanceOfNone(transformedError, regs[1].ctors)
           THEN /\ result.by = m.cases[1].run.h
                /\ result.arg = ArgSubject(transformedError)
                /\ FallbackEvents = {}
                /\ Succeeded
           ELSE /\ RunEvents = {}
                /\ IF result.via = "otherwise"
                   THEN result.by = 0 /\ Cardinality(FallbackEvents) = 1
                   ELSE FailedLoudly

\* withNot([A, B], h) alone, subject an instance of B: the fallback runs
C8_Witness ==
  /\ Len(regs) = 1 /\ regs[1].op = "withNot" /\ regs[1].ctors = <<"A", "B">>
  /\ InstanceOf(transformedError, "B")
  /\ result.via = "otherwise" /\ result.by = 0 /\ FallbackEvents # {}

RuleOf(h) == CHOOSE i \in 1..Len(m.cases) : m.cases[i].run.h = h

\* C10: after map(t1), ..., map(tn), interleaved in any way with the
\* registrations, the working subject is tn(...t1(e)...), and that value
\* is what every test, every handler and the fallback observe at terminal
\* time.
C10_MapComposition ==
  LET final == Compose(maps, original)
  IN /\ transformedError = final
     /\ Done =>
          /\ \A k \in 1..Len(calls) :
               calls[k].arg = IF calls[k].ev = "run"
                              THEN RunArg(m.cases[RuleOf(calls[k].i)], final)
                              ELSE ArgSubject(final)
          /\ result.arg.whole => result.arg = ArgSubject(final)

\* two transforms that do not commute were applied around a registration,
\* and the rule registered saw the composed value
C10_Witness ==
  /\ maps = <<"dbl", "inc">>
  /\ original = NewVariant("A", Num(1))
  /\ transformedError = NewVariant("A", Num(3))
  /\ Len(regs) = 1
  /\ TestEvents # {}
  /\ Done /\ result.arg.whole /\ result.arg.subj.status = Num(3)

(***************************************************************************)
(* Dispatch when tests, handlers and the fallback may throw                *)
(***************************************************************************)
\* number of registration / map calls made on the matcher in SpecThrowing
MaxThrowOps == 2

\* the value a failing handler (rule handler or fallback) throws, or
\* rejects its promise with
HandlerError == "handler failed"

\* what the function a dispatch calls does: return normally (in the async
\* flavors: return a promise), or throw
HandlerBehaviours == {"returns", "throws"}

\* the last call of the log ended by throwing
MarkThrew(log) == [log EXCEPT ![Len(log)].threw = TRUE]

\* variant: the engine catches what the handler throws and answers with
\* the fallback
Propagate_recovers(o, beh) ==
  IF beh = "throws" /\ o.how \in {"return", "pending"}
  THEN [o EXCEPT !.by = 0, !.arg = ArgSubject(o.log[1].arg.subj),
                 !.log = MarkThrew(@) \o <<Ev("fallback", 0, ArgSubject(o.log[1].arg.subj))>>]
  ELSE o

\* `return handler(e)`, `return c.run(e)`, `return fallback(e)`: there is
\* no try / catch around the call, so what the called function throws
\* leaves the dispatch (and rejects the promise of an async dispatch)
Propagate(o, beh) ==
  IF beh = "throws" /\ o.how \in {"return", "pending"}
  THEN [o EXCEPT !.how = IF o.how = "return" THEN "throw" ELSE "rejected",
                 !.error = HandlerError,
                 !.log = MarkThrew(@)]
  ELSE o

ThrowRoom == Len(m.cases) + Len(maps) < MaxThrowOps

ThrowingWith(ctorOrGuard) == ThrowRoom /\ With(ctorOrGuard)
ThrowingWithAny(ctors) == ThrowRoom /\ WithAny(ctors)
ThrowingWithNot(ctors) == ThrowRoom /\ WithNot(ctors)
ThrowingSelect(ctor, key) == ThrowRoom /\ Select(ctor, key)
ThrowingWhen(pred) == ThrowRoom /\ When(pred)
ThrowingMap(transform) == ThrowRoom /\ Map(transform)

\* otherwise(handler), the function called behaving as beh
ThrowingOtherwise(beh) ==
  Terminal(Propagate(IF IsAsync(flavor) THEN asyncOtherwise(m, transformedError)
                     ELSE otherwise(m, transformedError), beh), "otherwise")

\* exhaustive(), the function called behaving as beh
ThrowingExhaustive(beh) ==
  /\ IsExhaustiveFlavor(flavor)
  /\ Terminal(Propagate(IF IsAsync(flavor) THEN asyncRunExhaustive(m, transformedError)
                        ELSE runExhaustive(m, transformedError), beh), "exhaustive")

\* the promise of the handler an async terminal call returned rejects
Reject ==
  /\ result.state = "pending"
  /\ result' = [result EXCEPT !.state = "rejected", !.error = HandlerError]
  /\ calls' = MarkThrew(calls)
  /\ UNCHANGED <<flavor, original, transformedError, m, maps, regs, others>>

ThrowingNext ==
  \/ \E f \in WithArgs : ThrowingWith(f)
  \/ \E cs \in WithAnyArgs : ThrowingWithAny(cs)
  \/ \E cs \in WithNotArgs : ThrowingWithNot(cs)
  \/ \E a \in SelectArgs : ThrowingSelect(a[1], a[2])
  \/ \E p \in WhenArgs \cup ThrowingGuards : ThrowingWhen(p)
  \/ \E t \in Transforms : ThrowingMap(t)
  \/ \E beh \in HandlerBehaviours : ThrowingOtherwise(beh)
  \/ \E beh \in HandlerBehaviours : ThrowingExhaustive(beh)
  \/ Settle
  \/ Reject

SpecThrowing == Init /\ [][ThrowingNext]_vars

\* the handlers (rule handlers and the fallback) a dispatch called
HandlerEvents == RunEvents \cup FallbackEvents

\* the calls that ended by throwing
ThrewEvents == {k \in 1..Len(calls) : calls[k].threw}

(***************************************************************************)
(* C11 - one handler per dispatch                                          *)
(***************************************************************************)
\* C11 as stated: every terminal call invokes exactly one handler, exactly
\* once - one rule handler or, for otherwise only, the fallback.
C11_ExactlyOneHandler ==
  Done =>
    /\ Cardinality(HandlerEvents) = 1
    /\ FallbackEvents # {} => result.via = "otherwise"

\* C11 amended: a terminal call invokes at most one handler and invokes it
\* once - a rule handler or, for otherwise only, the fallback; it invokes
\* none exactly when it fails before selecting one (exhaustive with no
\* matching rule, or a test that throws).  Nothing is called after the
\* selected handler, also not once its promise has settled.
C11_AtMostOneHandler ==
  Done =>
    /\ Cardinality(HandlerEvents) <= 1
    /\ FallbackEvents # {} => result.via = "otherwise"
    /\ \A k \in HandlerEvents : k = Len(calls) /\ calls[k].i = result.by
    /\ (HandlerEvents = {}) <=>
         \/ result.via = "exhaustive" /\ result.error = NonExhaustive
         \/ result.error = TestError

\* an async dispatch over two rules that both match has settled after
\* calling one handler
C11_Witness ==
  /\ IsAsync(flavor) /\ result.state = "fulfilled"
  /\ Cardinality(Matching) = 2
  /\ Cardinality(RunEvents) = 1 /\ FallbackEvents = {}

(***************************************************************************)
(* C12 - the engine never swallows errors                                  *)
(***************************************************************************)
\* C12: when a test, the selected handler or the fallback throws (or its
\* promise rejects), that call is the last one the dispatch makes and the
\* terminal call throws / rejects with that same value: no later rule is
\* tried and the fallback is not called as a recovery.  A terminal call
\* fails only so, or with the non-exhaustive error.
C12_NeverSwallows ==
  Done =>
    /\ \A k \in ThrewEvents :
         /\ k = Len(calls)
         /\ result.state = (IF IsAsync(flavor) THEN "rejected" ELSE "threw")
         /\ result.error = (IF calls[k].ev = "test" THEN TestError ELSE HandlerError)
    /\ result.state \in {"threw", "rejected"} =>
         \/ ThrewEvents # {}
         \/ result.via = "exhaustive" /\ result.error = NonExhaustive /\ HandlerEvents = {}

\* a throwing test sits before a rule that matches: the dispatch threw the
\* test's error and the later rule was not tried
C12_Witness ==
  /\ Len(m.cases) = 2 /\ TestThrows(m.cases[1], transformedError)
  /\ Test(m.cases[2], transformedError)
  /\ result.state = "threw" /\ result.error = TestError
  /\ Len(calls) = 1

(***************************************************************************)
(* Two matchers made by separate builder calls                             *)
(***************************************************************************)
\* number of registration / map calls made on each matcher in SpecTwoMatchers
MaxPeerOps == 2

\* the builders and subjects of the two-matcher runs
PeerFlavors == {"matchErrorOf", "matchErrorOfAsync"}
PeerSubjects == {NewVariant("A", Num(1)), NewClass("T1")}
PeerWithArgs == {"A", "T1"}
PeerTransforms == {"inc"}

\* the closure state of a builder call: matchErrorOf(e) / matchErrorOfAsync(e)
NewMatcher(f, e) ==
  [flavor |-> f, original |-> e, transformedError |-> e, m |-> baseMatcher,
   maps |-> <<>>, calls |-> <<>>, result |-> NoResult]

TwoInit ==
  /\ flavor \in PeerFlavors
  /\ original \in PeerSubjects
  /\ transformedError = original
  /\ m = baseMatcher
  /\ maps = <<>>
  /\ regs = <<>>
  /\ calls = <<>>
  /\ result = NoResult
  /\ peer \in {NewMatcher(f, e) : f \in PeerFlavors, e \in PeerSubjects}
  /\ wrapped = NotWrapped
  /\ heap = NoHeap
  /\ RestIdle

\* the state of the first matcher
first == <<flavor, original, transformedError, m, maps, regs, calls, result>>

FirstRoom == Len(m.cases) + Len(maps) < MaxPeerOps
PeerRoom == Len(peer.m.cases) + Len(peer.maps) < MaxPeerOps

FirstWith(ctorOrGuard) == FirstRoom /\ With(ctorOrGuard)
FirstMap(transform) == FirstRoom /\ Map(transform)

\* variant: the tag table is one module-level Map that every matcher uses
PeerWith_sharedTagTable(ctorOrGuard) ==
  /\ PeerRoom
  /\ peer' = [peer EXCEPT !.m = apiWith(@, ctorOrGuard, Len(@.cases) + 1),
                          !.calls = <<>>, !.result = NoResult]
  /\ m' = [m EXCEPT !.tagHandlers = peer'.m.tagHandlers, !.hasTagHandlers = peer'.m.hasTagHandlers]
  /\ UNCHANGED <<flavor, original, transformedError, maps, regs, calls, result, wrapped, heap, rest>>

\* with(ctorOrGuard, handler) on the second matcher
PeerWith(ctorOrGuard) ==
  /\ PeerRoom
  /\ peer' = [peer EXCEPT !.m = apiWith(@, ctorOrGuard, Len(@.cases) + 1),
                          !.calls = <<>>, !.result = NoResult]
  /\ UNCHANGED <<first, wrapped, heap, rest>>

\* map(transform) on the second matcher
PeerMap(transform) ==
  /\ PeerRoom
  /\ ApplyTransform(transform, peer.transformedError).status.n <= MaxStatus
  /\ peer' = [peer EXCEPT !.transformedError = ApplyTransform(transform, @),
                          !.maps = Append(@, transform),
                          !.calls = <<>>, !.result = NoResult]
  /\ UNCHANGED <<first, wrapped, heap, rest>>

PeerTerminal(o, via) ==
  /\ peer' = [peer EXCEPT !.calls = o.log, !.result = Returned(o, via)]
  /\ UNCHANGED <<first, wrapped, heap, rest>>

\* otherwise(handler) on the second matcher
PeerOtherwise ==
  PeerTerminal(IF IsAsync(peer.flavor) THEN asyncOtherwise(peer.m, peer.transformedError)
               ELSE otherwise(peer.m, peer.transformedError), "otherwise")

\* exhaustive() on the second matcher
PeerExhaustive ==
  PeerTerminal(IF IsAsync(peer.flavor) THEN asyncRunExhaustive(peer.m, peer.transformedError)
               ELSE runExhaustive(peer.m, peer.transformedError), "exhaustive")

\* the pending promise of the second matcher's terminal call settles
PeerSettle ==
  /\ peer.result.state = "pending"
  /\ peer' = [peer EXCEPT !.result.state = "fulfilled"]
  /\ UNCHANGED <<first, wrapped, heap, rest>>

TwoNext ==
  \/ \E f \in PeerWithArgs : FirstWith(f)
  \/ \E t \in PeerTransforms : FirstMap(t)
  \/ Otherwise
  \/ Exhaustive
  \/ Settle
  \/ \E f \in PeerWithArgs : PeerWith(f)
  \/ \E t \in PeerTransforms : PeerMap(t)
  \/ PeerOtherwise
  \/ PeerExhaustive
  \/ PeerSettle

SpecTwoMatchers == TwoInit /\ [][TwoNext]_vars

(***************************************************************************)
(* C13 - matcher isolation                                                 *)
(***************************************************************************)
\* C13: under every interleaving of registrations, map calls and terminal
\* calls (async ones possibly still pending) on two matchers made by
\* separate builder calls, a step that changes one matcher leaves the rule
\* list, tag table, working subject and terminal result of the other as
\* they were.
C13_Isolation ==
  [][ /\ peer' # peer =>
           /\ m' = m
           /\ transformedError' = transformedError
           /\ result' = result /\ calls' = calls
      /\ first' # first =>
           /\ peer'.m = peer.m
           /\ peer'.transformedError = peer.transformedError
           /\ peer'.result = peer.result /\ peer'.calls = peer.calls ]_vars

\* both matchers hold rules and a mapped subject of their own, the first
\* one's async terminal call is still pending while the second has returned
C13_Witness ==
  /\ result.state = "pending" /\ peer.result.state = "returned"
  /\ m.hasTagHandlers /\ ~peer.m.hasTagHandlers /\ Len(peer.m.cases) = 1
  /\ transformedError = original /\ peer.transformedError # peer.original

(***************************************************************************)
(* C14 - with(ctorOrGuard, h) dispatches on the kind of its argument       *)
(***************************************************************************)
\* C14: the test of a rule registered by with(C, h) for an error
\* constructor C - the host Error as well as any subclass of it - is
\* `subject instanceof C`, so it passes exactly on the instances of C; for
\* any other function g the test is the call g(subject).
C14_WithDispatch ==
  \A i \in 1..Len(regs) :
    regs[i].op = "with" =>
      (Test(m.cases[i], transformedError) <=>
         IF regs[i].fn \in Classes
         THEN InstanceOf(transformedError, regs[i].fn)
         ELSE CallFn(regs[i].fn, transformedError))

(***************************************************************************)
(* wrap                                                                    *)
(***************************************************************************)
\* longest argument list handed to a wrapped function
MaxArgs == 2

\* JavaScript values that travel through wrap as return values, thrown
\* values and arguments
WrapValues == {"undefined", "null", "'boom'", "0", "new Error('x')"}

\* the functions handed to wrap.  Each acts on its first argument x:
\* (x) => x, (x) => { throw x }, async (x) => x, async (x) => { throw x }
WrapFns == {"returns", "throws", "resolves", "rejects"}

\* the argument lists of length n
RECURSIVE ArgLists(_)
ArgLists(n) ==
  IF n = 0 THEN {<<>>}
  ELSE ArgLists(n - 1) \cup {Append(a, v) : a \in {b \in ArgLists(n - 1) : Len(b) = n - 1}, v \in WrapValues}

\* the first argument as the function sees it
Arg1(args) == IF Len(args) >= 1 THEN args[1] ELSE "undefined"

\* fn(...args): how the call ends, with which value, and for a returned
\* promise how that promise will settle ("none": not a promise)
FnCall(fn, args) ==
  CASE fn = "returns" -> [how |-> "return", val |-> Arg1(args), settles |-> "none"]
    [] fn = "throws" -> [how |-> "throw", val |-> Arg1(args), settles |-> "none"]
    [] fn = "resolves" -> [how |-> "return", val |-> Arg1(args), settles |-> "fulfilled"]
    [] fn = "rejects" -> [how |-> "return", val |-> Arg1(args), settles |-> "rejected"]

\* the two variants of Result
Ok(v) == [ok |-> TRUE, value |-> v]
Err(x) == [ok |-> FALSE, error |-> x]
NoOut == [ok |-> "none"]

\* wrap(fn), before the function it returns is called with args
Wrap(fn, args) ==
  [phase |-> "created", fn |-> fn, args |-> args,
   inner |-> "none", innerVal |-> "undefined",
   threwSync |-> FALSE, promise |-> "none", out |-> NoOut]

\* the matcher variables of a run that uses no matcher
IdleMatcher ==
  /\ flavor = "matchError"
  /\ original = Null
  /\ transformedError = Null
  /\ m = baseMatcher
  /\ maps = <<>>
  /\ regs = <<>>
  /\ calls = <<>>
  /\ result = NoResult

WrapInit ==
  /\ IdleMatcher
  /\ peer = NoPeer
  /\ heap = NoHeap
  /\ RestIdle
  /\ wrapped \in {Wrap(fn, args) : fn \in WrapFns, args \in ArgLists(MaxArgs)}

\* variant: the returned function has no try / catch around the call
WrapCall_noTry ==
  /\ wrapped.phase = "created"
  /\ LET r == FnCall(wrapped.fn, wrapped.args)
     IN wrapped' =
          IF r.how = "throw"
          THEN [wrapped EXCEPT !.phase = "done", !.promise = "rejected", !.innerVal = r.val]
          ELSE [wrapped EXCEPT !.phase = "awaiting", !.promise = "pending",
                               !.inner = IF r.settles = "none" THEN "fulfilled" ELSE "pending",
                               !.innerVal = r.val]
  /\ UNCHANGED first
  /\ UNCHANGED <<peer, heap, rest>>

\* the function returned by wrap is called: an async function, so the
\* caller gets a promise; the body runs up to the await.
\*   try { const v = await fn(...args); ... } catch (e) { return { ok: false, error: e } }
WrapCall ==
  /\ wrapped.phase = "created"
  /\ LET r == FnCall(wrapped.fn, wrapped.args)
     IN wrapped' =
          IF r.how = "throw"
          THEN [wrapped EXCEPT !.phase = "done", !.promise = "fulfilled", !.out = Err(r.val)]
          ELSE [wrapped EXCEPT !.phase = "awaiting", !.promise = "pending",
                               !.inner = IF r.settles = "none" THEN "fulfilled" ELSE "pending",
                               !.innerVal = r.val]
  /\ UNCHANGED first
  /\ UNCHANGED <<peer, heap, rest>>

\* the promise fn returned settles
InnerSettle ==
  /\ wrapped.phase = "awaiting" /\ wrapped.inner = "pending"
  /\ wrapped' = [wrapped EXCEPT !.inner = FnCall(wrapped.fn, wrapped.args).settles]
  /\ UNCHANGED first
  /\ UNCHANGED <<peer, heap, rest>>

\* variant: the catch clause turns a thrown non-Error into an Error
WrapResume_coerces ==
  /\ wrapped.phase = "awaiting" /\ wrapped.inner \in {"fulfilled", "rejected"}
  /\ wrapped' = [wrapped EXCEPT
       !.phase = "done", !.promise = "fulfilled",
       !.out = IF wrapped.inner = "fulfilled" THEN Ok(wrapped.innerVal)
               ELSE Err("new Error('x')")]
  /\ UNCHANGED first
  /\ UNCHANGED <<peer, heap, rest>>

\* the await completes: return { ok: true, value: v }, or the rejection is
\* thrown at the await and caught: return { ok: false, error: e }
WrapResume ==
  /\ wrapped.phase = "awaiting" /\ wrapped.inner \in {"fulfilled", "rejected"}
  /\ wrapped' = [wrapped EXCEPT
       !.phase = "done", !.promise = "fulfilled",
       !.out = IF wrapped.inner = "fulfilled" THEN Ok(wrapped.innerVal)
               ELSE Err(wrapped.innerVal)]
  /\ UNCHANGED first
  /\ UNCHANGED <<peer, heap, rest>>

WrapNext ==
  \/ WrapCall
  \/ InnerSettle
  \/ WrapResume

SpecWrap == WrapInit /\ [][WrapNext]_vars

(***************************************************************************)
(* C15 - the result of wrap                                                *)
(***************************************************************************)
\* C15: the promise of wrap(fn)(...args) fulfils with { ok: true, value: v }
\* exactly when fn returned v or a promise fulfilled with v, and with
\* { ok: false, error: x } exactly when fn threw x or returned a promise
\* rejected with x - x being the thrown value itself, Error or not; the
\* record has exactly one of value / error.
C15_WrapResult ==
  wrapped.promise = "fulfilled" =>
    LET x == Arg1(wrapped.args)
    IN /\ (wrapped.out = Ok(x)) <=> (wrapped.fn \in {"returns", "resolves"})
       /\ (wrapped.out = Err(x)) <=> (wrapped.fn \in {"throws", "rejects"})
       /\ DOMAIN wrapped.out \in {{"ok", "value"}, {"ok", "error"}}
       /\ wrapped.out.ok <=> ("value" \in DOMAIN wrapped.out)

\* fn returned a promise that rejected with null: the failure variant
\* carries null itself
C15_Witness ==
  /\ wrapped.fn = "rejects" /\ wrapped.args = <<"null", "0">>
  /\ wrapped.promise = "fulfilled" /\ wrapped.out = Err("null")

(***************************************************************************)
(* C16 - wrap never re-throws                                              *)
(***************************************************************************)
\* C16: calling wrap(fn)(...args) never throws synchronously and the
\* promise it returns never rejects: it is pending until the outcome of fn
\* is known and fulfilled from then on.
C16_WrapNeverThrows ==
  wrapped.phase # "created" =>
    /\ ~wrapped.threwSync
    /\ wrapped.promise \in {"pending", "fulfilled"}
    /\ (wrapped.phase = "done") <=> (wrapped.promise = "fulfilled")

\* fn threw a string synchronously and the call still gave a fulfilled promise
C16_Witness ==
  /\ wrapped.fn = "throws" /\ Arg1(wrapped.args) = "'boom'"
  /\ wrapped.phase = "done" /\ wrapped.promise = "fulfilled" /\ ~wrapped.threwSync

(***************************************************************************)
(* defineError: the constructor TE and TE.is                               *)
(***************************************************************************)
\* the message argument: omitted (undefined), or a string
Messages == {"undefined", "", "hello"}

\* the data argument: omitted, { status: 1 }, or { status: 1, nested: { b: 1 } }
Payloads == {"omitted", "flat", "nested"}

\* variant: message || name
DefaultMessage_falsy(message, name) == IF message \in {"undefined", "null", ""} THEN name ELSE message

\* message ?? name
DefaultMessage(message, name) == IF message \in {"undefined", "null"} THEN name ELSE message

\* The objects of one constructor call.  d: the payload object the caller
\* holds; n: the object in d.nested; e: the {} the constructor makes when
\* no data is given (x: a field a later write adds, 0 when absent).
Objects(payload, frozenBefore) ==
  [d |-> [exists |-> payload # "omitted", frozen |-> frozenBefore, status |-> 1,
          nested |-> payload = "nested"],
   n |-> [exists |-> payload = "nested", frozen |-> FALSE, b |-> 1],
   e |-> [exists |-> FALSE, frozen |-> FALSE, x |-> 0]]

\* the contents of the object behind ref, through every nesting level
Deep(objs, ref) ==
  IF ref = "d"
  THEN [status |-> objs.d.status, b |-> IF objs.d.nested THEN objs.n.b ELSE 0, x |-> 0]
  ELSE [status |-> 0, b |-> 0, x |-> objs.e.x]

NoInst == [kind |-> "undefined", cls |-> "", tag |-> NoTag, name |-> "", message |-> "", data |-> ""]
NoIs == [called |-> FALSE, value |-> Null, result |-> FALSE]

\* the caller is about to evaluate new Variant(message, data)
BeforeNew(variant, message, payload, frozenBefore) ==
  [phase |-> "args", variant |-> variant, message |-> message, payload |-> payload,
   objs |-> Objects(payload, frozenBefore),
   inst |-> NoInst, threw |-> FALSE,
   frozenBefore |-> frozenBefore,
   atNew |-> Deep(Objects(payload, frozenBefore), "d"),
   written |-> FALSE, isCall |-> NoIs]

DefineInit ==
  /\ IdleMatcher
  /\ peer = NoPeer
  /\ wrapped = NotWrapped
  /\ RestIdle
  /\ heap \in {BeforeNew(v, msg, d, f) :
                 v \in Variants, msg \in Messages, d \in Payloads, f \in BOOLEAN}

\* Object.freeze(o): o itself becomes frozen, the objects it refers to do not
Freeze(objs, ref) == [objs EXCEPT ![ref].frozen = TRUE]

\* constructor(message?, data?) of the class defineError(name)() returns
New ==
  /\ heap.phase = "args"
  /\ LET name == heap.variant
         given == heap.payload # "omitted"
         objs == IF given THEN Freeze(heap.objs, "d")
                 ELSE [heap.objs EXCEPT !.e.exists = TRUE]
     IN heap' = [heap EXCEPT
          !.phase = "constructed",
          !.objs = objs,
          !.atNew = Deep(heap.objs, IF given THEN "d" ELSE "e"),
          !.inst = [kind |-> "object", cls |-> name, tag |-> name, name |-> name,
                    message |-> DefaultMessage(heap.message, name),
                    data |-> IF given THEN "d" ELSE "e"]]
  /\ UNCHANGED first
  /\ UNCHANGED <<peer, wrapped, rest>>

\* the fields a write can aim at: d.status, d.nested.b, and x of the {}
Fields == {<<"d", "status">>, <<"n", "b">>, <<"e", "x">>}

\* an attempted assignment ref.field = v: it takes effect unless the
\* object is frozen
Write(ref, field, v) ==
  /\ heap.objs[ref].exists
  /\ heap' = [heap EXCEPT
       !.objs = IF heap.objs[ref].frozen THEN @ ELSE [@ EXCEPT ![ref][field] = v],
       !.written = TRUE]
  /\ UNCHANGED first
  /\ UNCHANGED <<peer, wrapped, rest>>

\* variant: only instances are recognised
is_instanceOnly(name, e) == InstanceOf(e, name)

\* static is(e): e instanceof TE || (typeof e === 'object' && e !== null && e.tag === name)
is(name, e) ==
  \/ InstanceOf(e, name)
  \/ (e.kind \in {"object", "null"} /\ e.kind # "null" /\ e.tag = name)

\* the values handed to is
IsValues ==
  Subjects \cup
  { Null, Value("undefined", "", NoTag, FALSE, Undefined), Value("string", "", NoTag, FALSE, Undefined),
    Plain("A"), Plain("B"), Plain("a"), Plain(NoTag) }

\* Variant.is(value)
Is(value) ==
  /\ heap' = [heap EXCEPT !.isCall = [called |-> TRUE, value |-> value,
                                      result |-> is(heap.variant, value)]]
  /\ UNCHANGED first
  /\ UNCHANGED <<peer, wrapped, rest>>

DefineNext ==
  \/ New
  \/ \E f \in Fields, v \in 2..MaxStatus : Write(f[1], f[2], v)
  \/ \E value \in IsValues : Is(value)

SpecDefineError == DefineInit /\ [][DefineNext]_vars

Constructed == heap.phase = "constructed"

(***************************************************************************)
(* C17 - payload immutability                                              *)
(***************************************************************************)
\* C17: .data of a constructed instance is deep-equal to the payload given
\* to the constructor (empty when none was given), and no later attempted
\* write to a field of .data, at any nesting depth, changes it.
C17_PayloadImmutable ==
  Constructed => Deep(heap.objs, heap.inst.data) = heap.atNew

(***************************************************************************)
(* C18 - construction has no failure and no side effect                    *)
(***************************************************************************)
\* C18: new Variant(message?, data?) never throws, and the payload object
\* the caller passed is as writable through the caller's reference after
\* the call as it was before.
C18_ConstructionPure ==
  Constructed =>
    /\ ~heap.threw
    /\ heap.payload # "omitted" => heap.objs.d.frozen = heap.frozenBefore

(***************************************************************************)
(* C19 - tag / name / message normalization                                *)
(***************************************************************************)
\* C19: an instance of the variant defined with tag t has tag = t and
\* name = t whatever the arguments; its message is the message given, and
\* t when the message is omitted; it is instanceof its variant constructor
\* and instanceof Error.
C19_Normalized ==
  Constructed =>
    /\ heap.inst.tag = heap.variant
    /\ heap.inst.name = heap.variant
    /\ heap.inst.message = (IF heap.message = "undefined" THEN heap.variant ELSE heap.message)
    /\ InstanceOf(heap.inst, heap.variant)
    /\ InstanceOf(heap.inst, "Error")

\* new B('', { status: 1 }): the empty message given is kept
C19_Witness ==
  /\ Constructed /\ heap.variant = "B" /\ heap.message = "" /\ heap.payload = "flat"
  /\ heap.inst.message = "" /\ heap.inst.name = "B"

(***************************************************************************)
(* C20 - Variant.is                                                        *)
(***************************************************************************)
\* C20: Variant.is(value) is true iff value is an instance of the variant's
\* constructor or a non-null object whose tag is the variant's tag; it is
\* false for null, undefined, primitives, and objects with another tag or
\* none.
C20_IsCorrect ==
  heap.isCall.called =>
    LET v == heap.isCall.value
        t == heap.variant
    IN /\ heap.isCall.result <=> (InstanceOf(v, t) \/ (IsObject(v) /\ v.tag = t))
       /\ v.kind \in {"null", "undefined", "string"} => ~heap.isCall.result
       /\ (IsObject(v) /\ ~InstanceOf(v, t) /\ v.tag # t) => ~heap.isCall.result

\* A.is({ tag: 'A' }) is true for a plain object that is no instance of A
C20_Witness ==
  /\ heap.isCall.called /\ heap.variant = "A"
  /\ heap.isCall.value = Plain("A") /\ ~InstanceOf(heap.isCall.value, "A")
  /\ heap.isCall.result

(***************************************************************************)
(* serialize / deserialize / toJSON / fromJSON                             *)
(***************************************************************************)
\* longest constructor list handed to deserialize / fromJSON
MaxCtors == 2

\* a property that the object does not have (reading it gives undefined)
Absent == "<absent>"

\* the value a property read yields
Read(v) == IF v = Absent THEN "undefined" ELSE v

\* the truthiness of a property value
Truthy(v) == Read(v) \notin {"undefined", "null", "", "0", "NaN"}

\* The constructors handed to deserialize.  A, B: defineError('A')(),
\* defineError('B')(); A2: a second defineError('A')(); ClassB: a
\* hand-written class B extends Error {}; Error: the host constructor.
SerCtors == {"A", "A2", "B", "ClassB", "Error"}
Factories == {"A", "A2", "B"}

\* the name given to defineError for a factory-made constructor
FactoryTag(c) == CASE c = "A" -> "A" [] c = "A2" -> "A" [] c = "B" -> "B" [] OTHER -> NoTag

\* typeof ctor.is === 'function'
HasIs(c) == c \in Factories

\* ctor.name: every factory-made class is `class TE`
CtorName(c) == CASE c \in Factories -> "TE" [] c = "ClassB" -> "B" [] OTHER -> "Error"

\* the payload objects, by their contents
DataValues == {"{}", "{status:1}", "{status:NaN}"}

\* a value that can be thrown: an Error object with its properties, or
\* something else (text: what String(value) gives)
ErrVal(cls, tag, name, message, data, stack) ==
  [isError |-> TRUE, cls |-> cls, tag |-> tag, name |-> name, message |-> message,
   data |-> data, stack |-> stack, text |-> ""]
NonError(text) ==
  [isError |-> FALSE, cls |-> "", tag |-> Absent, name |-> Absent, message |-> Absent,
   data |-> Absent, stack |-> Absent, text |-> text]

\* error instanceof ctor
SerInstanceOf(x, c) == x.isError /\ (c = "Error" \/ x.cls = c)

\* new ctor(message, data): the factory class keeps tag, name, default
\* message and payload; the host Error and a plain subclass take the
\* message only
Construct(c, message, data) ==
  IF c \in Factories
  THEN ErrVal(c, FactoryTag(c), FactoryTag(c), DefaultMessage(Read(message), FactoryTag(c)),
              IF Truthy(data) THEN data ELSE "{}", "generated")
  ELSE ErrVal(c, Absent, "Error", IF Read(message) = "undefined" THEN "" ELSE message,
              Absent, "generated")

\* a SerializedError, or another value JSON.parse can give (json: its kind)
Rec(tag, message, name, data, stack) ==
  [json |-> "object", tag |-> tag, message |-> message, name |-> name, data |-> data, stack |-> stack]
NonRecord(kind) ==
  [json |-> kind, tag |-> Absent, message |-> Absent, name |-> Absent, data |-> Absent, stack |-> Absent]

\* serialize(error, includeStack)
serialize(error, includeStack) ==
  IF ~SerInstanceOf(error, "Error")
  THEN Rec("UnknownError", error.text, "UnknownError", "undefined", "undefined")
  ELSE Rec(IF Read(error.tag) \notin {"undefined", "null"} THEN error.tag ELSE error.name,
           error.message,
           error.name,
           IF error.data # Absent /\ Truthy(error.data) THEN error.data ELSE Absent,
           IF includeStack /\ Truthy(error.stack) THEN error.stack ELSE Absent)

\* JSON.stringify of one property: a key whose value is undefined is left
\* out, NaN is written as null
StringifyField(v) ==
  CASE v = "undefined" -> Absent
    [] v = "{status:NaN}" -> "{status:null}"
    [] OTHER -> v

\* JSON.stringify(record): the text, held as the value it denotes
Stringify(rec) ==
  [json |-> rec.json, tag |-> StringifyField(rec.tag), message |-> StringifyField(rec.message),
   name |-> StringifyField(rec.name), data |-> StringifyField(rec.data),
   stack |-> StringifyField(rec.stack)]

\* JSON.parse(json)
Parse(json) == json

\* toJSON(error, includeStack)
toJSON(error, includeStack) == Stringify(serialize(error, includeStack))

\* what deserialize hands back: the error returned and the position in the
\* list of the constructor instantiated (0: generic Error), or a throw
Returns(error, by) == [threw |-> FALSE, error |-> error, by |-> by]
Throws(what) == [threw |-> TRUE, error |-> NonError(what), by |-> 0]

\* if (serialized.stack) error.stack = serialized.stack
RestoreStack(error, rec) ==
  IF Truthy(rec.stack) THEN [error EXCEPT !.stack = rec.stack] ELSE error

\* the generic Error built when no constructor matches
Generic(rec) ==
  RestoreStack(
    [ErrVal("Error", Absent, Read(rec.name),
            IF Read(rec.message) = "undefined" THEN "" ELSE rec.message,
            Absent, "generated")
       EXCEPT !.data = IF Truthy(rec.data) THEN rec.data ELSE Absent,
              !.tag = IF Truthy(rec.tag) THEN rec.tag ELSE Absent],
    rec)

\* variant: the name is compared with the tag only
MatchesByName_tagOnly(ctor, rec) == CtorName(ctor) = Read(rec.tag)

\* ctor.name === serialized.tag || ctor.name === serialized.name
MatchesByName(ctor, rec) ==
  CtorName(ctor) = Read(rec.tag) \/ CtorName(ctor) = Read(rec.name)

\* for (const ctor of constructors) { ... } from position i on
RECURSIVE deserializeFrom(_, _, _)
deserializeFrom(rec, ctors, i) ==
  IF i > Len(ctors) THEN Returns(Generic(rec), 0)
  ELSE IF HasIs(ctors[i]) /\ is(FactoryTag(ctors[i]), Plain(Read(rec.tag)))
       THEN Returns(RestoreStack(Construct(ctors[i], rec.message, rec.data), rec), i)
  ELSE IF MatchesByName(ctors[i], rec)
       THEN Returns(RestoreStack(Construct(ctors[i], rec.message, rec.data), rec), i)
  ELSE deserializeFrom(rec, ctors, i + 1)

\* deserialize(serialized, constructors): reading a property of null throws
deserialize(rec, ctors) ==
  IF rec.json = "null" THEN Throws("TypeError")
  ELSE deserializeFrom(rec, ctors, 1)

\* fromJSON(json, constructors)
fromJSON(json, ctors) == deserialize(Parse(json), ctors)

\* the values handed to serialize / toJSON: instances of the factory-made
\* classes, host and hand-written errors, an error without a stack, and
\* values that are not errors
SerErrors ==
  {Construct(c, msg, d) : c \in Factories, msg \in Messages, d \in {Absent} \cup (DataValues \ {"{}"})}
    \cup {Construct("Error", "hello", Absent), Construct("ClassB", "hello", Absent),
          [Construct("Error", "hello", Absent) EXCEPT !.stack = "undefined"],
          NonError("just a string"), NonError("null")}

\* the records handed to deserialize directly
SerRecords ==
  {Rec(tag, message, name, data, stack) :
     tag \in {"A", "B", "", Absent}, message \in {"hello", Absent},
     name \in {"B", "TE", "X"}, data \in {Absent, "{status:1}"},
     stack \in {Absent, "", "at f (x.ts:1)"}}

\* the other values a JSON text can denote
JsonKinds == {"null", "number", "string", "array"}

\* the constructor lists
CtorLists == UNION {[1..n -> SerCtors] : n \in 0..MaxCtors}

NoSource == NonError("<no source>")
NoRec == NonRecord("<no record>")
NotCalled == Throws("<not called>")

\* serial.phase: "error" (a value to serialize), "record" (a record in
\* hand), "json" (a JSON text in hand), "done" (deserialize has returned)
SerState(phase, source, includeStack, rec, ctors, out) ==
  [phase |-> phase, source |-> source, includeStack |-> includeStack, rec |-> rec,
   viaJSON |-> FALSE, ctors |-> ctors, out |-> out]

SerInit ==
  /\ IdleMatcher
  /\ peer = NoPeer
  /\ wrapped = NotWrapped
  /\ heap = NoHeap
  /\ chains = NoChains
  /\ guardCall = NoGuardCall
  /\ serial \in {SerState("error", e, FALSE, NoRec, <<>>, NotCalled) : e \in SerErrors}
           \cup {SerState("record", NoSource, FALSE, r, <<>>, NotCalled) : r \in SerRecords}
           \cup {SerState("json", NoSource, FALSE, Stringify(r), <<>>, NotCalled) :
                   r \in SerRecords \cup {NonRecord(k) : k \in JsonKinds}}

SerUnchanged == UNCHANGED first /\ UNCHANGED <<peer, wrapped, heap, chains, guardCall>>

\* const serialized = serialize(error, includeStack)
Serialize(includeStack) ==
  /\ serial.phase = "error"
  /\ serial' = [serial EXCEPT !.phase = "record", !.includeStack = includeStack,
                              !.rec = serialize(serial.source, includeStack)]
  /\ SerUnchanged

\* const json = toJSON(error, includeStack)
ToJSON(includeStack) ==
  /\ serial.phase = "error"
  /\ serial' = [serial EXCEPT !.phase = "json", !.includeStack = includeStack,
                              !.rec = toJSON(serial.source, includeStack)]
  /\ SerUnchanged

\* deserialize(serialized, constructors)
Deserialize(ctors) ==
  /\ serial.phase = "record"
  /\ serial' = [serial EXCEPT !.phase = "done", !.ctors = ctors,
                              !.out = deserialize(serial.rec, ctors)]
  /\ SerUnchanged

\* fromJSON(json, constructors)
FromJSON(ctors) ==
  /\ serial.phase = "json"
  /\ serial' = [serial EXCEPT !.phase = "done", !.viaJSON = TRUE, !.ctors = ctors,
                              !.rec = Parse(serial.rec),
                              !.out = fromJSON(serial.rec, ctors)]
  /\ SerUnchanged

SerNext ==
  \/ \E b \in BOOLEAN : Serialize(b)
  \/ \E b \in BOOLEAN : ToJSON(b)
  \/ \E l \in CtorLists : Deserialize(l)
  \/ \E l \in CtorLists : FromJSON(l)

SpecSerialization == SerInit /\ [][SerNext]_vars

\* the list holds constructor c
Listed(ctors, c) == \E i \in 1..Len(ctors) : ctors[i] = c

\* deserialize / fromJSON has returned or thrown
Deserialized == serial.phase = "done"

\* a throwable made by one of the factory constructors went all the way round
RoundTripped == Deserialized /\ serial.source.isError /\ serial.source.cls \in Factories

SerTypeOK == serial.phase \in {"error", "record", "json", "done"}

\* C21: Serialization round-trip.  For every instance e of a factory-made
\* constructor C and every constructor list that holds C at any position,
\* deserialize(serialize(e), L) - and fromJSON(toJSON(e), L) - is an instance
\* of C with e's message and a payload deep-equal to e's.
C21_RoundTrip ==
  (RoundTripped /\ Listed(serial.ctors, serial.source.cls)) =>
     /\ ~serial.out.threw
     /\ SerInstanceOf(serial.out.error, serial.source.cls)
     /\ serial.out.error.message = serial.source.message
     /\ serial.out.error.data = serial.source.data

\* serialize or toJSON has produced the record of an Error object
SerializedError ==
  /\ serial.phase = "record"
  /\ serial.source.isError

\* C22: serialize record shape.  For every Error e the record has tag = e's
\* own tag if present and otherwise e.name, message = e.message and
\* name = e.name; it has a data field only if e carries a defined, non-empty
\* payload; it has a stack field only if includeStack is true and e has a
\* stack string.
C22_RecordShape ==
  SerializedError =>
     /\ serial.rec.tag = (IF serial.source.tag # Absent THEN serial.source.tag ELSE serial.source.name)
     /\ serial.rec.message = serial.source.message
     /\ serial.rec.name = serial.source.name
     /\ (serial.rec.data # Absent => serial.source.data \notin {Absent, "undefined", "{}"})
     /\ (serial.rec.stack # Absent => (serial.includeStack /\ Truthy(serial.source.stack)))

\* a constructor matches a record: its static is accepts { tag: record.tag },
\* or its name equals record.tag or record.name
Matches(c, rec) ==
  \/ (c \in Factories /\ rec.tag # Absent /\ rec.tag = FactoryTag(c))
  \/ (rec.tag # Absent /\ rec.tag = CtorName(c))
  \/ (rec.name # Absent /\ rec.name = CtorName(c))

\* the position of the first constructor of the list that matches, 0 if none
FirstMatching(ctors, rec) ==
  IF \E i \in 1..Len(ctors) : Matches(ctors[i], rec)
  THEN CHOOSE i \in 1..Len(ctors) :
         Matches(ctors[i], rec) /\ \A j \in 1..(i - 1) : ~Matches(ctors[j], rec)
  ELSE 0

\* deserialize / fromJSON has returned an error
DeserializedOk == Deserialized /\ ~serial.out.threw

\* C23: deserialize candidate selection.  deserialize instantiates the first
\* constructor of the list that matches (by its static is, or by its name
\* against record.tag / record.name) as new Ctor(record.message,
\* record.data); no later constructor is used, and a constructor that does
\* not match is never instantiated.
C23_CandidateSelection ==
  DeserializedOk =>
     /\ serial.out.by = FirstMatching(serial.ctors, serial.rec)
     /\ (serial.out.by > 0 =>
           /\ Matches(serial.ctors[serial.out.by], serial.rec)
           /\ serial.out.error.cls = serial.ctors[serial.out.by]
           /\ (serial.out.error.cls \in Factories =>
                 /\ serial.out.error.message =
                      (IF serial.rec.message = Absent THEN serial.out.error.tag
                       ELSE serial.rec.message)
                 /\ serial.out.error.data =
                      (IF serial.rec.data = Absent THEN "{}" ELSE serial.rec.data)))

\* the second constructor of the list was instantiated after the first did
\* not match, or the first was instantiated although the second matches too
C23_Witness ==
  /\ DeserializedOk
  /\ Len(serial.ctors) = 2
  /\ serial.ctors[1] # serial.ctors[2]
  /\ Matches(serial.ctors[2], serial.rec)
  /\ serial.out.by = 1
  /\ ~(HasIs(serial.ctors[1]) /\ serial.rec.tag = FactoryTag(serial.ctors[1]))

\* deserialize has returned and no constructor of the list matches the record
Unmatched ==
  /\ DeserializedOk
  /\ serial.rec.json = "object"
  /\ \A i \in 1..Len(serial.ctors) : ~Matches(serial.ctors[i], serial.rec)

\* C24: deserialize generic fallback.  When no listed constructor matches
\* (the list may be empty) the result is a generic Error with the record's
\* message and name, with the record's tag and data attached whenever the
\* record has them, and it is an instance of none of the listed constructors.
C24_GenericFallback ==
  Unmatched =>
     /\ serial.out.error.cls = "Error"
     /\ (serial.rec.message # Absent => serial.out.error.message = serial.rec.message)
     /\ (serial.rec.name # Absent => serial.out.error.name = serial.rec.name)
     /\ (Read(serial.rec.tag) # "undefined" => serial.out.error.tag = serial.rec.tag)
     /\ (Read(serial.rec.data) # "undefined" => serial.out.error.data = serial.rec.data)
     /\ \A i \in 1..Len(serial.ctors) : ~SerInstanceOf(serial.out.error, serial.ctors[i])

\* the part of C24 that does not depend on an empty tag or on a listed host
\* Error: the generic result carries the record's message, name and payload
C24_FallbackFields ==
  Unmatched =>
     /\ serial.out.error.cls = "Error"
     /\ (serial.rec.message # Absent => serial.out.error.message = serial.rec.message)
     /\ (serial.rec.name # Absent => serial.out.error.name = serial.rec.name)
     /\ (Truthy(serial.rec.tag) => serial.out.error.tag = serial.rec.tag)
     /\ (Truthy(serial.rec.data) => serial.out.error.data = serial.rec.data)

\* C25: deserialization never fails on malformed input.  For every JSON
\* text that parses (null, a number, a string, an array, an object missing
\* fields) and every list, fromJSON returns an Error and does not throw;
\* likewise deserialize for every record.
C25_NeverFails ==
  Deserialized => (~serial.out.threw /\ serial.out.error.isError)

\* the part of C25 that holds: every parsed value other than null gives an Error
C25_NonNullNeverFails ==
  (Deserialized /\ serial.rec.json # "null") => (~serial.out.threw /\ serial.out.error.isError)

\* C26: stack preservation.  Whenever the record has a stack field (any
\* string value) the returned error's stack is exactly that string, on the
\* matched path and on the generic path alike.
C26_StackPreserved ==
  (DeserializedOk /\ Read(serial.rec.stack) # "undefined") => serial.out.error.stack = serial.rec.stack

\* the part of C26 that holds: a non-empty stack string is preserved
C26_NonEmptyStackPreserved ==
  (DeserializedOk /\ Truthy(serial.rec.stack)) => serial.out.error.stack = serial.rec.stack

(***************************************************************************)
(* isAnyOf / isAllOf                                                       *)
(***************************************************************************)
\* longest constructor / guard list handed to isAnyOf / isAllOf
MaxGuards == 2

\* the guards handed to isAllOf: isErrorOf(A, e => e.data.status >= 2),
\* isErrorOf(A), isErrorOf(B), and e => e instanceof Error
GuardFns == {"isErrorOfA", "isA", "isB", "isError"}

\* guard(value)
CallGuard(guard, value) ==
  CASE guard = "isErrorOfA" -> isErrorOf("A", value)
    [] guard = "isA" -> InstanceOf(value, "A")
    [] guard = "isB" -> InstanceOf(value, "B")
    [] OTHER -> InstanceOf(value, "Error")

\* ctors.some(ctor => error instanceof ctor), from position i on
RECURSIVE some(_, _, _)
some(ctors, error, i) ==
  IF i > Len(ctors) THEN FALSE
  ELSE IF InstanceOf(error, ctors[i]) THEN TRUE
  ELSE some(ctors, error, i + 1)

\* guards.every(guard => guard(value)), from position i on
RECURSIVE every(_, _, _)
every(guards, value, i) ==
  IF i > Len(guards) THEN TRUE
  ELSE IF ~CallGuard(guards[i], value) THEN FALSE
  ELSE every(guards, value, i + 1)

\* isAnyOf(error, ctors)
isAnyOf(error, ctors) == some(ctors, error, 1)

\* variant: the first guard decides
isAllOf_firstOnly(value, guards) == Len(guards) > 0 /\ CallGuard(guards[1], value)

\* isAllOf(value, guards)
isAllOf(value, guards) == every(guards, value, 1)

\* the values tested
GuardValues == Subjects \cup {Null, NewVariant("A", Num(2))}

\* one call: fn ("none" before it), the value, the list and what it returned
GuardCall(fn, value, list, returned) ==
  [fn |-> fn, value |-> value, list |-> list, returned |-> returned]

GuardInit ==
  /\ IdleMatcher
  /\ peer = NoPeer
  /\ wrapped = NotWrapped
  /\ heap = NoHeap
  /\ chains = NoChains
  /\ serial = NotSerialized
  /\ guardCall \in {GuardCall("none", v, <<>>, FALSE) : v \in GuardValues}

GuardUnchanged == UNCHANGED first /\ UNCHANGED <<peer, wrapped, heap, chains, serial>>

\* isAnyOf(value, ctors)
IsAnyOf(ctors) ==
  /\ guardCall.fn = "none"
  /\ guardCall' = GuardCall("isAnyOf", guardCall.value, ctors, isAnyOf(guardCall.value, ctors))
  /\ GuardUnchanged

\* isAllOf(value, guards)
IsAllOf(guards) ==
  /\ guardCall.fn = "none"
  /\ guardCall' = GuardCall("isAllOf", guardCall.value, guards, isAllOf(guardCall.value, guards))
  /\ GuardUnchanged

GuardNext ==
  \/ \E ctors \in UNION {[1..n -> Classes] : n \in 0..MaxGuards} : IsAnyOf(ctors)
  \/ \E guards \in UNION {[1..n -> GuardFns] : n \in 0..MaxGuards} : IsAllOf(guards)

SpecGuards == GuardInit /\ [][GuardNext]_vars

\* C27: guard-set identities.  isAnyOf(value, ctors) is true exactly when
\* value is an instance of at least one listed constructor, whatever the
\* order of the list, so it is false for the empty list; isAllOf(value,
\* guards) is true exactly when every listed guard accepts value, so it is
\* true for the empty list.
C27_GuardSets ==
  /\ (guardCall.fn = "isAnyOf" =>
        /\ guardCall.returned =
             (\E c \in {guardCall.list[i] : i \in 1..Len(guardCall.list)} :
                InstanceOf(guardCall.value, c))
        /\ (guardCall.list = <<>> => ~guardCall.returned))
  /\ (guardCall.fn = "isAllOf" =>
        /\ guardCall.returned =
             (\A g \in {guardCall.list[i] : i \in 1..Len(guardCall.list)} :
                CallGuard(g, guardCall.value))
        /\ (guardCall.list = <<>> => guardCall.returned))

\* isAllOf has returned true for an empty list
C27_Witness ==
  /\ guardCall.fn = "isAllOf"
  /\ guardCall.list = <<>>
  /\ guardCall.returned

(***************************************************************************)
(* The chain objects of one matcher                                        *)
(***************************************************************************)
\* number of registration / map calls made on the matcher in SpecChains
MaxChainOps == 2

\* the subjects and the registration calls used
ChainSubjects == {NewVariant("A", Num(1)), NewVariant("B", Undefined), Plain("tX")}
ChainRegs ==
  {Reg("with", "A", <<>>, FALSE, ""), Reg("with", "B", <<>>, FALSE, ""),
   Reg("withAny", "", <<"A", "B">>, TRUE, ""), Reg("withNot", "", <<"A">>, FALSE, ""),
   Reg("select", "", <<"A">>, FALSE, "status"), Reg("when", "isErrorOfA", <<>>, FALSE, "")}

\* the closure variables as they are at some moment
Env(bm, e) == [m |-> bm, transformedError |-> e]

\* chains.made: the chain objects createChain() / api() has returned so
\* far (the builder itself returns the first); chains.used: the chain
\* object the latest call was made on; chains.born[k]: the closure
\* variables at the moment chain object k was returned; chains.on: the
\* chain object each registration / map call was made on
ChainInit ==
  /\ flavor \in Flavors
  /\ original \in ChainSubjects
  /\ transformedError = original
  /\ m = baseMatcher
  /\ maps = <<>>
  /\ regs = <<>>
  /\ calls = <<>>
  /\ result = NoResult
  /\ peer = NoPeer
  /\ wrapped = NotWrapped
  /\ heap = NoHeap
  /\ serial = NotSerialized
  /\ guardCall = NoGuardCall
  /\ chains = [made |-> 1, used |-> 0, on |-> <<>>, born |-> <<Env(baseMatcher, original)>>]

\* variant: a chain object works on a copy of the closure variables taken
\* when it was returned
ChainEnv_snapshot(k) == chains.born[k]

\* the variables the methods of chain object k refer to: m and
\* transformedError of the enclosing builder call, whichever k
ChainEnv(k) == Env(m, transformedError)

ChainRoom == Len(regs) + Len(maps) < MaxChainOps

\* m.with / m.withAny / m.withNot / m.select / m.when as called by the
\* method of the chain object
ApplyReg(bm, reg, h) ==
  CASE reg.op = "with" -> apiWith(bm, reg.fn, h)
    [] reg.op = "withAny" -> withAnyCtor(bm, reg.ctors, h)
    [] reg.op = "withNot" -> withNotCtor(bm, [isArray |-> reg.isArray, list |-> reg.ctors], h)
    [] reg.op = "select" -> selectCtor(bm, reg.ctors[1], reg.key, h)
    [] OTHER -> when(bm, reg.fn, h)

\* return createChain() / return api()
CreateChain(k, bm, e) ==
  chains' = [made |-> chains.made + 1, used |-> k, on |-> Append(chains.on, k),
             born |-> Append(chains.born, Env(bm, e))]

ChainUnchanged == UNCHANGED <<peer, wrapped, heap, serial, guardCall>>

\* a registration method called on chain object k
ChainRegister(k, reg) ==
  /\ ChainRoom
  /\ m' = ApplyReg(ChainEnv(k).m, reg, Len(regs) + 1)
  /\ regs' = Append(regs, reg)
  /\ calls' = <<>>
  /\ result' = NoResult
  /\ CreateChain(k, m', transformedError)
  /\ UNCHANGED <<flavor, original, transformedError, maps>>
  /\ ChainUnchanged

\* map(transform) called on chain object k
ChainMap(k, transform) ==
  /\ ChainRoom
  /\ ApplyTransform(transform, ChainEnv(k).transformedError).status.n <= MaxStatus
  /\ transformedError' = ApplyTransform(transform, ChainEnv(k).transformedError)
  /\ maps' = Append(maps, transform)
  /\ calls' = <<>>
  /\ result' = NoResult
  /\ CreateChain(k, m, transformedError')
  /\ UNCHANGED <<flavor, original, m, regs>>
  /\ ChainUnchanged

ChainTerminal(k, o, via) ==
  /\ calls' = o.log
  /\ result' = Returned(o, via)
  /\ chains' = [chains EXCEPT !.used = k]
  /\ UNCHANGED <<flavor, original, transformedError, m, maps, regs>>
  /\ ChainUnchanged

\* otherwise(handler) called on chain object k
ChainOtherwise(k) ==
  ChainTerminal(k, IF IsAsync(flavor)
                   THEN asyncOtherwise(ChainEnv(k).m, ChainEnv(k).transformedError)
                   ELSE otherwise(ChainEnv(k).m, ChainEnv(k).transformedError), "otherwise")

\* exhaustive() called on chain object k
ChainExhaustive(k) ==
  /\ IsExhaustiveFlavor(flavor)
  /\ ChainTerminal(k, IF IsAsync(flavor)
                      THEN asyncRunExhaustive(ChainEnv(k).m, ChainEnv(k).transformedError)
                      ELSE runExhaustive(ChainEnv(k).m, ChainEnv(k).transformedError),
                   "exhaustive")

\* the pending promise of an async terminal call settles
ChainSettle ==
  /\ result.state = "pending"
  /\ result' = [result EXCEPT !.state = "fulfilled"]
  /\ UNCHANGED <<flavor, original, transformedError, m, maps, regs, calls, chains>>
  /\ ChainUnchanged

ChainNext ==
  \/ \E k \in 1..chains.made, reg \in ChainRegs : ChainRegister(k, reg)
  \/ \E k \in 1..chains.made, t \in Transforms : ChainMap(k, t)
  \/ \E k \in 1..chains.made : ChainOtherwise(k)
  \/ \E k \in 1..chains.made : ChainExhaustive(k)
  \/ ChainSettle

SpecChains == ChainInit /\ [][ChainNext]_vars

\* the matcher that registering regs[1], ..., regs[n] in order on one rule
\* list gives
RECURSIVE Replay(_, _)
Replay(rs, n) ==
  IF n = 0 THEN baseMatcher ELSE ApplyReg(Replay(rs, n - 1), rs[n], n)

\* what the terminal call just made gives on rule list bm and subject e
TerminalOn(bm, e) ==
  Returned(IF result.via = "otherwise"
           THEN (IF IsAsync(flavor) THEN asyncOtherwise(bm, e) ELSE otherwise(bm, e))
           ELSE (IF IsAsync(flavor) THEN asyncRunExhaustive(bm, e) ELSE runExhaustive(bm, e)),
           result.via)

\* C28: the chain objects of one builder call share state.  Whatever chain
\* object each registration, map and terminal call was made on, the rule
\* list holds every rule registered so far in call order, the working
\* subject is the composition of every map made so far, and a terminal call
\* on any chain object - a retained earlier one included - dispatches on
\* exactly those.
C28_ChainsShareState ==
  /\ m = Replay(regs, Len(regs))
  /\ transformedError = Compose(maps, original)
  /\ (Done /\ result.state # "fulfilled") =>
        result = TerminalOn(Replay(regs, Len(regs)), Compose(maps, original))

\* after one call on the first chain object and one on the second, a
\* terminal call on the retained first chain object ran the rule registered
\* and saw the mapped subject
C28_Witness ==
  /\ chains.used = 1
  /\ chains.on = <<1, 2>>
  /\ Len(regs) = 1 /\ Len(maps) = 1
  /\ transformedError # original
  /\ result.state = "returned"
  /\ result.by = 1
  /\ result.arg.whole /\ result.arg.subj = transformedError

(***************************************************************************)
(* C29, C30 - what map and the terminal calls do to the matcher            *)
(***************************************************************************)
\* the step is a map call
MapStep == maps' # maps

\* the step is a terminal call (not the settling of its promise)
TerminalStep ==
  /\ result'.state # "none"
  /\ ~(result.state = "pending" /\ result' = [result EXCEPT !.state = "fulfilled"])

\* C29: map is eager.  A map call applies its transform once, at the call,
\* to the working subject as it then is, and stores the result as the new
\* working subject; a terminal call applies no transform, so the working
\* subject is the same however many terminal calls are made.
C29_MapEager ==
  [][ /\ MapStep =>
           /\ Len(maps') = Len(maps) + 1
           /\ SubSeq(maps', 1, Len(maps)) = maps
           /\ transformedError' = ApplyTransform(maps'[Len(maps')], transformedError)
      /\ TerminalStep =>
           /\ maps' = maps
           /\ transformedError' = transformedError
           /\ transformedError' = Compose(maps, original) ]_vars

\* a terminal call was made after two map calls whose transform changed
\* the subject each time
C29_Witness ==
  /\ Done
  /\ maps = <<"inc", "inc">>
  /\ original = NewVariant("A", Num(1))
  /\ transformedError = NewVariant("A", Num(3))

\* C30: terminal calls are read-only.  otherwise / exhaustive, sync and
\* async, leave the rule list, the tag table and the working subject as
\* they were, so a terminal call repeated with no registration or map in
\* between selects the same rule, fallback or non-exhaustive error.
C30_TerminalReadOnly ==
  [][ TerminalStep =>
        /\ m' = m
        /\ transformedError' = transformedError
        /\ (Done /\ result.via = result'.via) =>
              /\ result'.by = result.by
              /\ result'.arg = result.arg
              /\ result'.error = result.error
              /\ calls' = calls ]_vars

\* a terminal call ran a tagged rule of a matcher that holds two rules and
\* a mapped subject, and all of that is still in place
C30_Witness ==
  /\ Done
  /\ Len(m.cases) = 2
  /\ m.hasTagHandlers
  /\ transformedError # original
  /\ result.by > 0

====
